---- MODULE Spec2Model ----
(***************************************************************************)
(* Model of the S3 -> local sync engine: Syncer.Run, downloadWorker and    *)
(* getFilesToDownload (internal/syncer/syncer.go), ParquetDB.BatchUpdate,  *)
(* FlushBatch, ReadAllRecords and WriteRecords                             *)
(* (internal/database/parquet.go) and the signal handling of main.         *)
(*                                                                         *)
(* Thread 0 is the goroutine that executes Run; threads 1..numWorkers are  *)
(* the downloadWorker goroutines.  ParquetDB has no lock, so every read    *)
(* and write of db.batchBuffer and of the Parquet file is a step of its    *)
(* own and the steps of different goroutines interleave freely.  A call of *)
(* ReadAllRecords or WriteRecords is one step (one file operation).  The   *)
(* slice db.batchBuffer is its backing array bufArr and its length bufLen; *)
(* growth beyond the initial capacity is modelled in place.                *)
(***************************************************************************)
EXTENDS Integers, Sequences, FiniteSets, TLC

\* ---- bounds -------------------------------------------------------------
NumKeys == 2        \* object keys 1..NumKeys
NumTags == 2        \* ETag values 0..NumTags-1; 0 is the empty string
MaxWorkers == 2     \* cfg.MAX_WORKERS ranges over 1..MaxWorkers
MaxBatch == 2       \* cfg.BATCH_SIZE ranges over 1..MaxBatch
MaxFaults == 1      \* I/O failures of listing and store operations

Keys == 1..NumKeys
EmptyTag == 0
ETags == 0..(NumTags - 1)
Absent == -1
Main == 0
Workers == 1..MaxWorkers
Threads == 0..MaxWorkers
NoKey == 0
NoRec == [key |-> NoKey, etag |-> EmptyTag, status |-> "none", syncedAt |-> 0]
NoMap == << >>

VARIABLES
  remote,          \* the bucket: key -> ETag, or Absent
  file,            \* the rows of the Parquet file
  batchSize,       \* db.batchSize
  numWorkers,      \* cfg.MAX_WORKERS
  bufArr,          \* backing array of db.batchBuffer
  bufLen,          \* len(db.batchBuffer)
  pc,              \* position of each goroutine
  cur,             \* downloadWorker: the key of `file` taken from the queue
  status,          \* downloadWorker: status passed to BatchUpdate
  rdLen,           \* append: the length read from the slice header
  existingRecords, \* FlushBatch: the map read from the file, then merged
  flushErr,        \* the error BatchUpdate / FlushBatch returned last
  queue,           \* downloadQueue
  closed,          \* close(downloadQueue) has happened
  filesToDownload, \* the plan, in listing order
  sent,            \* Run: how many files of the plan were sent on the queue
  localRecords,    \* Run: the snapshot the plan was computed from
  runErr,          \* what Run returned: "none" (running), "nil", "err"
  cancelled,       \* ctx is done
  interrupted,     \* an interrupt signal has arrived
  exited,          \* main has returned: the process is gone
  faults,          \* I/O failures so far
  progress,        \* ProgressTracker: total, success, failed
  file0,           \* history: the rows of the file when the process started
  fetched,         \* history: outcome of DownloadFile per key
  enqueued,        \* history: records appended to db.batchBuffer
  lastEnq,         \* history: per key, the record appended last
  written          \* history: records passed to a WriteRecords that succeeded

vars == << remote, file, batchSize, numWorkers, bufArr, bufLen, pc, cur, status,
           rdLen, existingRecords, flushErr, queue, closed, filesToDownload, sent,
           localRecords, runErr, cancelled, interrupted, exited, faults,
           progress, file0, fetched, enqueued, lastEnq, written >>

\* ---- data ---------------------------------------------------------------
\* FileRecord: LocalPath and LastModified are functions of the key and of
\* the listing; LastSyncedAt is 0 for a row that predates the run, 1 for a
\* row built by BatchUpdate in this run.
FileRecord(k, e, s, t) ==
  [key |-> k, etag |-> e, status |-> s, syncedAt |-> t]

\* The rows of the file as the map built by ReadAllRecords.
RecordMap(rows) ==
  [k \in {r.key : r \in rows} |-> CHOOSE r \in rows : r.key = k]

\* The rows WriteRecords is given: the values of the map.
RecordSlice(m) ==
  {m[k] : k \in DOMAIN m}

\* m[k] = r
Put(m, k, r) ==
  [x \in (DOMAIN m) \cup {k} |-> IF x = k THEN r ELSE m[x]]

\* for _, record := range db.batchBuffer { existingRecords[record.S3Key] = record }
RECURSIVE MergeBuffer(_, _, _, _)
MergeBuffer(m, arr, i, n) ==
  IF i >= n THEN m
  ELSE MergeBuffer(Put(m, arr[i].key, arr[i]), arr, i + 1, n)

\* The records in the live part of db.batchBuffer.
BufferRecords ==
  {bufArr[i] : i \in 0..(bufLen - 1)}

\* The listing ListFiles returns: the keys present in the bucket.
S3Files(rem) ==
  {k \in Keys : rem[k] # Absent}

\* Ascending sequence of a set of keys (the listing is in key order).
RECURSIVE KeySeq(_)
KeySeq(S) ==
  IF S = {} THEN << >>
  ELSE LET k == CHOOSE x \in S : \A y \in S : x <= y
       IN << k >> \o KeySeq(S \ {k})

\* getFilesToDownload without the ETag comparison: only unknown keys.
GetFilesToDownloadUnknownOnly(rem, recs) ==
  {k \in S3Files(rem) : k \notin DOMAIN recs}

\* getFilesToDownload that also plans every key whose record is "failed".
GetFilesToDownloadRetryFailed(rem, recs) ==
  {k \in S3Files(rem) :
     IF k \in DOMAIN recs
     THEN recs[k].etag # rem[k] \/ recs[k].status = "failed"
     ELSE TRUE}

\* getFilesToDownload: the keys of s3Files to download, given localRecords.
GetFilesToDownload(rem, recs) ==
  {k \in S3Files(rem) :
     IF k \in DOMAIN recs THEN recs[k].etag # rem[k] ELSE TRUE}

\* ---- initial state ------------------------------------------------------
\* A bucket and a Parquet file left by earlier runs (unique keys, every row
\* "downloaded"), a configuration, and main about to call Run.
Init ==
  /\ remote \in [Keys -> ETags \cup {Absent}]
  /\ \E f \in [Keys -> ETags \cup {Absent}] :
       file = {FileRecord(k, f[k], "downloaded", 0) : k \in {x \in Keys : f[x] # Absent}}
  /\ batchSize \in 1..MaxBatch
  /\ numWorkers \in 1..MaxWorkers
  /\ bufArr = [i \in 0..(NumKeys - 1) |-> NoRec]
  /\ bufLen = 0
  /\ pc = [t \in Threads |-> IF t = Main THEN "list" ELSE "idle"]
  /\ cur = [t \in Threads |-> NoKey]
  /\ status = [t \in Threads |-> "none"]
  /\ rdLen = [t \in Threads |-> 0]
  /\ existingRecords = [t \in Threads |-> NoMap]
  /\ flushErr = [t \in Threads |-> "none"]
  /\ queue = << >>
  /\ closed = FALSE
  /\ filesToDownload = << >>
  /\ sent = 0
  /\ localRecords = NoMap
  /\ runErr = "none"
  /\ cancelled = FALSE
  /\ interrupted = FALSE
  /\ exited = FALSE
  /\ faults = 0
  /\ progress = [total |-> 0, success |-> 0, failed |-> 0]
  /\ file0 = file
  /\ fetched = [k \in Keys |-> "none"]
  /\ enqueued = {}
  /\ lastEnq = [k \in Keys |-> NoRec]
  /\ written = {}

\* ---- Syncer.Run ---------------------------------------------------------
\* Run returns e; the goroutine of main that called it then calls cancel().
RunReturns(e) ==
  /\ runErr' = e
  /\ cancelled' = TRUE
  /\ pc' = [pc EXCEPT ![Main] = "done"]

\* ListFiles whose error Run does not return: the run goes on.
ListFilesErrorIgnored ==
  /\ ~exited /\ pc[Main] = "list"
  /\ \/ UNCHANGED faults
     \/ /\ faults < MaxFaults
        /\ faults' = faults + 1
  /\ pc' = [pc EXCEPT ![Main] = "snap"]
  /\ UNCHANGED << remote, file0, lastEnq, file, batchSize, numWorkers, bufArr, bufLen,
                  cur, status, rdLen, existingRecords, flushErr, queue, closed,
                  filesToDownload, sent, localRecords, runErr, cancelled,
                  interrupted, exited, progress, fetched, enqueued, written >>

\* s.s3Client.ListFiles(ctx): the listing, or an error that ends the run.
ListFiles ==
  /\ ~exited /\ pc[Main] = "list"
  /\ \/ /\ pc' = [pc EXCEPT ![Main] = "snap"]
        /\ UNCHANGED << runErr, cancelled, faults >>
     \/ /\ faults < MaxFaults
        /\ faults' = faults + 1
        /\ RunReturns("err")
  /\ UNCHANGED << remote, file0, lastEnq, file, batchSize, numWorkers, bufArr, bufLen, cur,
                  status, rdLen, existingRecords, flushErr, queue, closed,
                  filesToDownload, sent, localRecords, interrupted, exited,
                  progress, fetched, enqueued, written >>

\* s.db.ReadAllRecords(ctx) in Run: the snapshot, or an error that ends the run.
RunReadAllRecords ==
  /\ ~exited /\ pc[Main] = "snap"
  /\ \/ /\ localRecords' = RecordMap(file)
        /\ pc' = [pc EXCEPT ![Main] = "plan"]
        /\ UNCHANGED << runErr, cancelled, faults >>
     \/ /\ faults < MaxFaults
        /\ faults' = faults + 1
        /\ RunReturns("err")
        /\ UNCHANGED localRecords
  /\ UNCHANGED << remote, file0, lastEnq, file, batchSize, numWorkers, bufArr, bufLen, cur,
                  status, rdLen, existingRecords, flushErr, queue, closed,
                  filesToDownload, sent, interrupted, exited,
                  progress, fetched, enqueued, written >>

\* getFilesToDownload, the early return on an empty plan, progress.Start and
\* the start of the worker goroutines.
RunPlan ==
  /\ ~exited /\ pc[Main] = "plan"
  /\ LET plan == KeySeq(GetFilesToDownload(remote, localRecords))
     IN /\ filesToDownload' = plan
        /\ IF plan = << >>
           THEN /\ RunReturns("nil")
                /\ UNCHANGED progress
           ELSE /\ progress' = [total |-> Len(plan), success |-> 0, failed |-> 0]
                /\ pc' = [t \in Threads |->
                            IF t = Main THEN "fill"
                            ELSE IF t <= numWorkers THEN "recv" ELSE pc[t]]
                /\ UNCHANGED << runErr, cancelled >>
  /\ UNCHANGED << remote, file0, lastEnq, file, batchSize, numWorkers, bufArr, bufLen, cur,
                  status, rdLen, existingRecords, flushErr, queue, closed,
                  sent, localRecords, interrupted, exited, faults,
                  fetched, enqueued, written >>

\* make(chan types.Object, len(filesToDownload)): the capacity of the queue.
QueueCap ==
  Len(filesToDownload)

\* downloadQueue <- file: a send, which waits while the channel is full.
RunEnqueue ==
  /\ ~exited /\ pc[Main] = "fill"
  /\ sent < Len(filesToDownload)
  /\ Len(queue) < QueueCap
  /\ queue' = Append(queue, filesToDownload[sent + 1])
  /\ sent' = sent + 1
  /\ UNCHANGED << remote, file0, lastEnq, file, batchSize, numWorkers, bufArr, bufLen, pc, cur,
                  status, rdLen, existingRecords, flushErr, closed,
                  filesToDownload, localRecords, runErr, cancelled,
                  interrupted, exited, faults, progress, fetched, enqueued,
                  written >>

\* Run that never closes the queue: the workers' range never ends.
RunCloseKeepsOpen ==
  /\ ~exited /\ pc[Main] = "fill"
  /\ sent = Len(filesToDownload)
  /\ closed' = closed
  /\ pc' = [pc EXCEPT ![Main] = "wait"]
  /\ UNCHANGED << remote, file0, lastEnq, file, batchSize, numWorkers, bufArr, bufLen, cur,
                  status, rdLen, existingRecords, flushErr, queue,
                  filesToDownload, sent, localRecords, runErr, cancelled,
                  interrupted, exited, faults, progress, fetched, enqueued,
                  written >>

\* close(downloadQueue)
RunClose ==
  /\ ~exited /\ pc[Main] = "fill"
  /\ sent = Len(filesToDownload)
  /\ closed' = TRUE
  /\ pc' = [pc EXCEPT ![Main] = "wait"]
  /\ UNCHANGED << remote, file0, lastEnq, file, batchSize, numWorkers, bufArr, bufLen, cur,
                  status, rdLen, existingRecords, flushErr, queue,
                  filesToDownload, sent, localRecords, runErr, cancelled,
                  interrupted, exited, faults, progress, fetched, enqueued,
                  written >>

\* wg.Wait() returns when every worker has called wg.Done(); Run then calls
\* s.db.FlushBatch().
RunWait ==
  /\ ~exited /\ pc[Main] = "wait"
  /\ \A w \in 1..numWorkers : pc[w] = "exit"
  /\ pc' = [pc EXCEPT ![Main] = "fb_len"]
  /\ UNCHANGED << remote, file0, lastEnq, file, batchSize, numWorkers, bufArr, bufLen, cur,
                  status, rdLen, existingRecords, flushErr, queue, closed,
                  filesToDownload, sent, localRecords, runErr, cancelled,
                  interrupted, exited, faults, progress, fetched, enqueued,
                  written >>

\* The error of the final flush is logged; Run returns nil.
RunFinish ==
  /\ ~exited /\ pc[Main] = "ret"
  /\ RunReturns("nil")
  /\ UNCHANGED << remote, file0, lastEnq, file, batchSize, numWorkers, bufArr, bufLen, cur,
                  status, rdLen, existingRecords, flushErr, queue, closed,
                  filesToDownload, sent, localRecords, interrupted, exited,
                  faults, progress, fetched, enqueued, written >>

\* ---- downloadWorker -----------------------------------------------------
\* A receive that leaves the file in the queue.
WorkerRecvKeepsItem(w) ==
  /\ ~exited /\ pc[w] = "recv"
  /\ \/ /\ queue # << >>
        /\ cur' = [cur EXCEPT ![w] = Head(queue)]
        /\ pc' = [pc EXCEPT ![w] = "limit"]
        /\ UNCHANGED queue
     \/ /\ queue = << >> /\ closed
        /\ pc' = [pc EXCEPT ![w] = "exit"]
        /\ UNCHANGED << cur, queue >>
  /\ UNCHANGED << remote, file0, lastEnq, file, batchSize, numWorkers, bufArr, bufLen,
                  status, rdLen, existingRecords, flushErr, closed,
                  filesToDownload, sent, localRecords, runErr, cancelled,
                  interrupted, exited, faults, progress, fetched, enqueued,
                  written >>

\* for file := range queue: take the next file, or leave the loop (and call
\* wg.Done) when the queue is closed and empty.
WorkerRecv(w) ==
  /\ ~exited /\ pc[w] = "recv"
  /\ \/ /\ queue # << >>
        /\ cur' = [cur EXCEPT ![w] = Head(queue)]
        /\ queue' = Tail(queue)
        /\ pc' = [pc EXCEPT ![w] = "limit"]
     \/ /\ queue = << >> /\ closed
        /\ pc' = [pc EXCEPT ![w] = "exit"]
        /\ UNCHANGED << cur, queue >>
  /\ UNCHANGED << remote, file0, lastEnq, file, batchSize, numWorkers, bufArr, bufLen,
                  status, rdLen, existingRecords, flushErr, closed,
                  filesToDownload, sent, localRecords, runErr, cancelled,
                  interrupted, exited, faults, progress, fetched, enqueued,
                  written >>

\* A rate limiter wait that lets the worker pass although ctx is done.
WorkerLimitIgnoresCancel(w) ==
  /\ ~exited /\ pc[w] = "limit"
  /\ pc' = [pc EXCEPT ![w] = "fetch"]
  /\ UNCHANGED << remote, file0, lastEnq, file, batchSize, numWorkers, bufArr,
                  bufLen, cur, status, rdLen, existingRecords, flushErr, queue,
                  closed, filesToDownload, sent, localRecords, runErr,
                  cancelled, interrupted, exited, faults, progress, fetched,
                  enqueued, written >>

\* s.rateLimiter.Wait(ctx): an error once ctx is done, and the worker returns.
WorkerLimit(w) ==
  /\ ~exited /\ pc[w] = "limit"
  /\ IF cancelled
     THEN pc' = [pc EXCEPT ![w] = "exit"]
     ELSE pc' = [pc EXCEPT ![w] = "fetch"]
  /\ UNCHANGED << remote, file0, lastEnq, file, batchSize, numWorkers, bufArr, bufLen, cur,
                  status, rdLen, existingRecords, flushErr, queue, closed,
                  filesToDownload, sent, localRecords, runErr, cancelled,
                  interrupted, exited, faults, progress, fetched, enqueued,
                  written >>

\* The results of s.s3Client.DownloadFile(ctx, ...): nil ("ok"), an error of
\* its own ("fail") or, ctx being handed on to downloader.Download, the error
\* of a download cut short because ctx is done ("abort").
FetchOutcomes ==
  IF cancelled THEN {"ok", "fail", "abort"} ELSE {"ok", "fail"}

\* s.s3Client.DownloadFile returns (the worker has been in it since the rate
\* limiter let it pass): it succeeded or failed; either way the worker calls
\* BatchUpdate with the listing's ETag and the matching status.
WorkerFetch(w) ==
  /\ ~exited /\ pc[w] = "fetch"
  /\ \E out \in FetchOutcomes :
       /\ fetched' = [fetched EXCEPT ![cur[w]] = out]
       /\ status' = [status EXCEPT ![w] = IF out = "ok" THEN "downloaded" ELSE "failed"]
  /\ pc' = [pc EXCEPT ![w] = "bu_load"]
  /\ UNCHANGED << remote, file0, lastEnq, file, batchSize, numWorkers, bufArr, bufLen, cur,
                  rdLen, existingRecords, flushErr, queue, closed,
                  filesToDownload, sent, localRecords, runErr, cancelled,
                  interrupted, exited, faults, progress, enqueued, written >>

\* A worker that counts an item as failed when BatchUpdate returned an error.
WorkerProgressCountsStoreError(w) ==
  /\ ~exited /\ pc[w] = "inc"
  /\ progress' = IF status[w] = "failed" \/ flushErr[w] = "err"
                 THEN [progress EXCEPT !.failed = @ + 1]
                 ELSE [progress EXCEPT !.success = @ + 1]
  /\ pc' = [pc EXCEPT ![w] = "recv"]
  /\ cur' = [cur EXCEPT ![w] = NoKey]
  /\ status' = [status EXCEPT ![w] = "none"]
  /\ UNCHANGED << remote, file0, lastEnq, file, batchSize, numWorkers, bufArr, bufLen,
                  rdLen, existingRecords, flushErr, queue, closed,
                  filesToDownload, sent, localRecords, runErr, cancelled,
                  interrupted, exited, faults, fetched, enqueued, written >>

\* IncrementFailed / IncrementSuccess (under the tracker's mutex), then the
\* next iteration of the loop.  The error of BatchUpdate is at most logged.
WorkerProgress(w) ==
  /\ ~exited /\ pc[w] = "inc"
  /\ progress' = IF status[w] = "failed"
                 THEN [progress EXCEPT !.failed = @ + 1]
                 ELSE [progress EXCEPT !.success = @ + 1]
  /\ pc' = [pc EXCEPT ![w] = "recv"]
  /\ cur' = [cur EXCEPT ![w] = NoKey]
  /\ status' = [status EXCEPT ![w] = "none"]
  /\ UNCHANGED << remote, file0, lastEnq, file, batchSize, numWorkers, bufArr, bufLen,
                  rdLen, existingRecords, flushErr, queue, closed,
                  filesToDownload, sent, localRecords, runErr, cancelled,
                  interrupted, exited, faults, fetched, enqueued, written >>

\* ---- ParquetDB.BatchUpdate ----------------------------------------------
\* Where a goroutine continues when BatchUpdate / FlushBatch returns.
AfterFlush(t) ==
  IF t = Main THEN "ret" ELSE "inc"

\* The record BatchUpdate builds for the worker's current file.
UpdateRecord(w) ==
  FileRecord(cur[w], remote[cur[w]], status[w], 1)

\* append(db.batchBuffer, record), first half: read the slice header.
AppendLoad(w) ==
  /\ ~exited /\ pc[w] = "bu_load"
  /\ rdLen' = [rdLen EXCEPT ![w] = bufLen]
  /\ pc' = [pc EXCEPT ![w] = "bu_store"]
  /\ UNCHANGED << remote, file0, lastEnq, file, batchSize, numWorkers, bufArr, bufLen, cur,
                  status, existingRecords, flushErr, queue, closed,
                  filesToDownload, sent, localRecords, runErr, cancelled,
                  interrupted, exited, faults, progress, fetched, enqueued,
                  written >>

\* append, second half: store the record behind the length that was read and
\* assign the grown slice to db.batchBuffer.
AppendStore(w) ==
  /\ ~exited /\ pc[w] = "bu_store"
  /\ bufArr' = [bufArr EXCEPT ![rdLen[w]] = UpdateRecord(w)]
  /\ bufLen' = rdLen[w] + 1
  /\ enqueued' = enqueued \cup {UpdateRecord(w)}
  /\ lastEnq' = [lastEnq EXCEPT ![cur[w]] = UpdateRecord(w)]
  /\ rdLen' = [rdLen EXCEPT ![w] = 0]
  /\ pc' = [pc EXCEPT ![w] = "bu_check"]
  /\ UNCHANGED << remote, file0, file, batchSize, numWorkers, cur,
                  status, existingRecords, flushErr, queue, closed,
                  filesToDownload, sent, localRecords, runErr, cancelled,
                  interrupted, exited, faults, progress, fetched, written >>

\* if len(db.batchBuffer) >= db.batchSize { return db.FlushBatch() }; return nil
BatchCheck(w) ==
  /\ ~exited /\ pc[w] = "bu_check"
  /\ IF bufLen >= batchSize
     THEN /\ pc' = [pc EXCEPT ![w] = "fb_len"]
          /\ UNCHANGED flushErr
     ELSE /\ pc' = [pc EXCEPT ![w] = AfterFlush(w)]
          /\ flushErr' = [flushErr EXCEPT ![w] = "nil"]
  /\ UNCHANGED << remote, file0, lastEnq, file, batchSize, numWorkers, bufArr, bufLen, cur,
                  status, rdLen, existingRecords, queue, closed,
                  filesToDownload, sent, localRecords, runErr, cancelled,
                  interrupted, exited, faults, progress, fetched, enqueued,
                  written >>

\* ---- ParquetDB.FlushBatch -----------------------------------------------
\* if len(db.batchBuffer) == 0 { return nil }
FlushLen(t) ==
  /\ ~exited /\ pc[t] = "fb_len"
  /\ IF bufLen = 0
     THEN /\ pc' = [pc EXCEPT ![t] = AfterFlush(t)]
          /\ flushErr' = [flushErr EXCEPT ![t] = "nil"]
     ELSE /\ pc' = [pc EXCEPT ![t] = "fb_read"]
          /\ UNCHANGED flushErr
  /\ UNCHANGED << remote, file0, lastEnq, file, batchSize, numWorkers, bufArr, bufLen, cur,
                  status, rdLen, existingRecords, queue, closed,
                  filesToDownload, sent, localRecords, runErr, cancelled,
                  interrupted, exited, faults, progress, fetched, enqueued,
                  written >>

\* FlushBatch that truncates the buffer before it returns the read error.
FlushReadDropsBuffer(t) ==
  /\ ~exited /\ pc[t] = "fb_read"
  /\ \/ /\ existingRecords' = [existingRecords EXCEPT ![t] = RecordMap(file)]
        /\ pc' = [pc EXCEPT ![t] = "fb_merge"]
        /\ UNCHANGED << flushErr, faults, bufLen >>
     \/ /\ faults < MaxFaults
        /\ faults' = faults + 1
        /\ flushErr' = [flushErr EXCEPT ![t] = "err"]
        /\ pc' = [pc EXCEPT ![t] = IF t = Main THEN "ret" ELSE "inc"]
        /\ bufLen' = 0
        /\ UNCHANGED existingRecords
  /\ UNCHANGED << remote, file0, lastEnq, file, batchSize, numWorkers, bufArr, cur,
                  status, rdLen, queue, closed,
                  filesToDownload, sent, localRecords, runErr, cancelled,
                  interrupted, exited, progress, fetched, enqueued,
                  written >>

\* existingRecords, err := db.ReadAllRecords(...); on an error FlushBatch
\* returns it and leaves the buffer alone.
FlushRead(t) ==
  /\ ~exited /\ pc[t] = "fb_read"
  /\ \/ /\ existingRecords' = [existingRecords EXCEPT ![t] = RecordMap(file)]
        /\ pc' = [pc EXCEPT ![t] = "fb_merge"]
        /\ UNCHANGED << flushErr, faults >>
     \/ /\ faults < MaxFaults
        /\ faults' = faults + 1
        /\ flushErr' = [flushErr EXCEPT ![t] = "err"]
        /\ pc' = [pc EXCEPT ![t] = AfterFlush(t)]
        /\ UNCHANGED existingRecords
  /\ UNCHANGED << remote, file0, lastEnq, file, batchSize, numWorkers, bufArr, bufLen, cur,
                  status, rdLen, queue, closed,
                  filesToDownload, sent, localRecords, runErr, cancelled,
                  interrupted, exited, progress, fetched, enqueued,
                  written >>

\* The merge loop over db.batchBuffer and the copy of the map to recordSlice.
FlushMerge(t) ==
  /\ ~exited /\ pc[t] = "fb_merge"
  /\ existingRecords' = [existingRecords EXCEPT
                           ![t] = MergeBuffer(existingRecords[t], bufArr, 0, bufLen)]
  /\ pc' = [pc EXCEPT ![t] = "fb_write"]
  /\ UNCHANGED << remote, file0, lastEnq, file, batchSize, numWorkers, bufArr, bufLen, cur,
                  status, rdLen, flushErr, queue, closed,
                  filesToDownload, sent, localRecords, runErr, cancelled,
                  interrupted, exited, faults, progress, fetched, enqueued,
                  written >>

\* db.WriteRecords(recordSlice): the file becomes exactly the given rows.  On
\* an error the file is untouched (the writer could not be created) or holds
\* the rows written before the failure, and FlushBatch returns the error
\* without touching the buffer.
FlushWrite(t) ==
  /\ ~exited /\ pc[t] = "fb_write"
  /\ \/ /\ file' = RecordSlice(existingRecords[t])
        /\ written' = written \cup RecordSlice(existingRecords[t])
        /\ pc' = [pc EXCEPT ![t] = "fb_clear"]
        /\ UNCHANGED << flushErr, faults >>
     \/ /\ faults < MaxFaults
        /\ faults' = faults + 1
        /\ \/ file' = file
           \/ \E part \in SUBSET RecordSlice(existingRecords[t]) :
                /\ part # RecordSlice(existingRecords[t])
                /\ file' = part
        /\ flushErr' = [flushErr EXCEPT ![t] = "err"]
        /\ pc' = [pc EXCEPT ![t] = AfterFlush(t)]
        /\ UNCHANGED written
  /\ existingRecords' = [existingRecords EXCEPT ![t] = NoMap]
  /\ UNCHANGED << remote, file0, lastEnq, batchSize, numWorkers, bufArr, bufLen, cur,
                  status, rdLen, queue, closed,
                  filesToDownload, sent, localRecords, runErr, cancelled,
                  interrupted, exited, progress, fetched, enqueued >>

\* db.batchBuffer = db.batchBuffer[:0]; return nil
FlushClear(t) ==
  /\ ~exited /\ pc[t] = "fb_clear"
  /\ bufLen' = 0
  /\ flushErr' = [flushErr EXCEPT ![t] = "nil"]
  /\ pc' = [pc EXCEPT ![t] = AfterFlush(t)]
  /\ UNCHANGED << remote, file0, lastEnq, file, batchSize, numWorkers, bufArr, cur,
                  status, rdLen, existingRecords, queue, closed,
                  filesToDownload, sent, localRecords, runErr, cancelled,
                  interrupted, exited, faults, progress, fetched, enqueued,
                  written >>

\* ---- main ---------------------------------------------------------------
\* An interrupt signal arrives while Run is running: main calls cancel().
Signal ==
  /\ ~exited /\ ~interrupted /\ pc[Main] # "done"
  /\ interrupted' = TRUE
  /\ cancelled' = TRUE
  /\ UNCHANGED << remote, file0, lastEnq, file, batchSize, numWorkers, bufArr, bufLen, pc, cur,
                  status, rdLen, existingRecords, flushErr, queue, closed,
                  filesToDownload, sent, localRecords, runErr, exited, faults,
                  progress, fetched, enqueued, written >>

\* The select of main fires once ctx is done (after the signal, or after Run
\* returned); main returns and the process, with all its goroutines, ends.
Exit ==
  /\ ~exited /\ cancelled
  /\ exited' = TRUE
  /\ UNCHANGED << remote, file0, lastEnq, file, batchSize, numWorkers, bufArr, bufLen, pc, cur,
                  status, rdLen, existingRecords, flushErr, queue, closed,
                  filesToDownload, sent, localRecords, runErr, cancelled,
                  interrupted, faults, progress, fetched, enqueued, written >>

\* ---- specification ------------------------------------------------------
Next ==
  \/ ListFiles
  \/ RunReadAllRecords
  \/ RunPlan
  \/ RunEnqueue
  \/ RunClose
  \/ RunWait
  \/ RunFinish
  \/ Signal
  \/ Exit
  \/ \E w \in Workers : WorkerRecv(w)
  \/ \E w \in Workers : WorkerLimit(w)
  \/ \E w \in Workers : WorkerFetch(w)
  \/ \E w \in Workers : WorkerProgress(w)
  \/ \E w \in Workers : AppendLoad(w)
  \/ \E w \in Workers : AppendStore(w)
  \/ \E w \in Workers : BatchCheck(w)
  \/ \E t \in Threads : FlushLen(t)
  \/ \E t \in Threads : FlushRead(t)
  \/ \E t \in Threads : FlushMerge(t)
  \/ \E t \in Threads : FlushWrite(t)
  \/ \E t \in Threads : FlushClear(t)

Spec == Init /\ [][Next]_vars

\* ---- the pipeline on a plan that names a key twice ----------------------
\* Run at the point where it has built its plan and started the workers
\* (pc "fill"), the plan being any sequence of NumKeys keys: a listing that
\* names a key twice makes getFilesToDownload plan it twice, and BatchUpdate
\* is then called twice for that key.  The store starts empty.
InitDup ==
  /\ remote = [k \in Keys |-> NumTags - 1]
  /\ file = {}
  /\ batchSize \in 1..MaxBatch
  /\ numWorkers \in 1..MaxWorkers
  /\ filesToDownload \in [1..NumKeys -> Keys]
  /\ bufArr = [i \in 0..(NumKeys - 1) |-> NoRec]
  /\ bufLen = 0
  /\ pc = [t \in Threads |->
             IF t = Main THEN "fill" ELSE IF t <= numWorkers THEN "recv" ELSE "idle"]
  /\ cur = [t \in Threads |-> NoKey]
  /\ status = [t \in Threads |-> "none"]
  /\ rdLen = [t \in Threads |-> 0]
  /\ existingRecords = [t \in Threads |-> NoMap]
  /\ flushErr = [t \in Threads |-> "none"]
  /\ queue = << >>
  /\ closed = FALSE
  /\ sent = 0
  /\ localRecords = RecordMap(file)
  /\ runErr = "none"
  /\ cancelled = FALSE
  /\ interrupted = FALSE
  /\ exited = FALSE
  /\ faults = 0
  /\ progress = [total |-> NumKeys, success |-> 0, failed |-> 0]
  /\ file0 = file
  /\ fetched = [k \in Keys |-> "none"]
  /\ enqueued = {}
  /\ lastEnq = [k \in Keys |-> NoRec]
  /\ written = {}

NextDup ==
  \/ RunEnqueue
  \/ RunClose
  \/ RunWait
  \/ RunFinish
  \/ Signal
  \/ Exit
  \/ \E w \in Workers : WorkerRecv(w)
  \/ \E w \in Workers : WorkerLimit(w)
  \/ \E w \in Workers : WorkerFetch(w)
  \/ \E w \in Workers : WorkerProgress(w)
  \/ \E w \in Workers : AppendLoad(w)
  \/ \E w \in Workers : AppendStore(w)
  \/ \E w \in Workers : BatchCheck(w)
  \/ \E t \in Threads : FlushLen(t)
  \/ \E t \in Threads : FlushRead(t)
  \/ \E t \in Threads : FlushMerge(t)
  \/ \E t \in Threads : FlushWrite(t)
  \/ \E t \in Threads : FlushClear(t)

SpecDup == InitDup /\ [][NextDup]_vars

\* ---- scheduling ---------------------------------------------------------
\* The steps of the goroutines of the program (Run and the workers): every
\* action but the arrival of a signal and the end of the process.
GoroutineStep ==
  \/ ListFiles
  \/ RunReadAllRecords
  \/ RunPlan
  \/ RunEnqueue
  \/ RunClose
  \/ RunWait
  \/ RunFinish
  \/ \E w \in Workers : WorkerRecv(w)
  \/ \E w \in Workers : WorkerLimit(w)
  \/ \E w \in Workers : WorkerFetch(w)
  \/ \E w \in Workers : WorkerProgress(w)
  \/ \E w \in Workers : AppendLoad(w)
  \/ \E w \in Workers : AppendStore(w)
  \/ \E w \in Workers : BatchCheck(w)
  \/ \E t \in Threads : FlushLen(t)
  \/ \E t \in Threads : FlushRead(t)
  \/ \E t \in Threads : FlushMerge(t)
  \/ \E t \in Threads : FlushWrite(t)
  \/ \E t \in Threads : FlushClear(t)

\* A first run: NewParquetDB has just created the store file, with no rows.
InitFair ==
  /\ Init
  /\ file = {}

\* The Go scheduler runs a goroutine that can run; the rate limiter, the
\* fetch and the file operations return.
SpecFair == InitFair /\ [][Next]_vars /\ WF_vars(GoroutineStep)

\* ---- notions the claims share -------------------------------------------
\* A goroutine is between the snapshot read of FlushBatch and the end of its
\* rewrite.
InRewrite(t) ==
  pc[t] \in {"fb_merge", "fb_write"}

\* A goroutine is inside FlushBatch.
InFlush(t) ==
  pc[t] \in {"fb_len", "fb_read", "fb_merge", "fb_write", "fb_clear"}

\* No store or listing operation has failed and no interrupt has arrived.
Undisturbed ==
  faults = 0 /\ ~interrupted

\* Run has computed its plan.
Planned ==
  pc[Main] \notin {"list", "snap", "plan"} /\ runErr # "err"

\* Run has returned after running the pipeline.
PipelineDone ==
  runErr = "nil" /\ filesToDownload # << >>

PlanKeys ==
  {filesToDownload[i] : i \in 1..Len(filesToDownload)}

FileKeys(rows) ==
  {r.key : r \in rows}

\* ---- C1 -----------------------------------------------------------------
\* C1: at most one snapshot-merge-rewrite sequence is in flight at any time:
\* no two goroutines are both between the snapshot read of FlushBatch and the
\* end of its rewrite.
C1_SingleWriter ==
  \A t1 \in Threads : \A t2 \in Threads :
    (t1 # t2 /\ InRewrite(t1)) => ~InRewrite(t2)

\* ---- C2 -----------------------------------------------------------------
\* C2: append, threshold check and flush-and-clear are one atomic step: while
\* a goroutine is inside FlushBatch no other worker appends to the buffer,
\* and every record that was appended is still in the buffer or was handed
\* to a rewrite that succeeded.
C2_AtomicAppendFlush ==
  /\ [](enqueued \subseteq (BufferRecords \cup written))
  /\ [][\A w \in Workers :
          (pc[w] = "bu_store" /\ pc'[w] = "bu_check")
            => \A t \in Threads \ {w} : ~InFlush(t)]_vars

\* ---- C3 -----------------------------------------------------------------
\* C3: after Run finishes with no cancellation and no store failure, the
\* keys of the store are the keys present before the run united with the
\* planned keys, with one row per key.
C3_Completeness ==
  (runErr = "nil" /\ Undisturbed) =>
     /\ FileKeys(file) = FileKeys(file0) \cup PlanKeys
     /\ \A r1 \in file : \A r2 \in file : r1.key = r2.key => r1 = r2

\* ---- C4 -----------------------------------------------------------------
\* C4: when Run returns after the pipeline has run (no store failure, no
\* cancellation), every record a worker appended to the batch buffer is in
\* the store: the final flush leaves no remainder unpersisted.
C4_FinalFlushPersists ==
  (PipelineDone /\ Undisturbed) => enqueued \subseteq file

C6_PlanRule ==
  Planned =>
    \A k \in Keys :
      (k \in PlanKeys) <=>
        /\ remote[k] # Absent
        /\ \/ k \notin DOMAIN localRecords
           \/ localRecords[k].etag # remote[k]

\* A plan was computed that includes a key for its changed ETag and leaves
\* out a key whose ETag equals the stored one.
C6_Witness ==
  /\ Planned
  /\ \E k1 \in Keys : \E k2 \in Keys :
       /\ k1 \in PlanKeys /\ k1 \in DOMAIN localRecords
       /\ k2 \notin PlanKeys /\ remote[k2] # Absent

\* ---- C7 -----------------------------------------------------------------
\* C7: a remote descriptor whose ETag is empty is always in the plan,
\* whatever ETag the store holds for its key.
C7_EmptyFingerprintPlanned ==
  Planned => \A k \in Keys : remote[k] = EmptyTag => k \in PlanKeys

\* ---- C8 -----------------------------------------------------------------
\* C8: after a run (no store failure, no cancellation) a second run against
\* the same listing plans nothing: getFilesToDownload of the listing and the
\* store the first run left is empty.
C8_Idempotence ==
  (runErr = "nil" /\ Undisturbed) =>
     GetFilesToDownload(remote, RecordMap(file)) = {}

\* ---- C9 -----------------------------------------------------------------
\* C9: when a fetch fails (no store failure, no cancellation), Run returns
\* no error, every plan item was fetched, the store has a "failed" record
\* for each key whose fetch failed and a "downloaded" record for each key
\* whose fetch succeeded.
C9_FetchFailureRecorded ==
  (pc[Main] = "done" /\ Undisturbed /\ \E k \in Keys : fetched[k] = "fail") =>
     /\ runErr = "nil"
     /\ \A k \in PlanKeys :
          /\ fetched[k] # "none"
          /\ fetched[k] = "fail" => FileRecord(k, remote[k], "failed", 1) \in file
          /\ fetched[k] = "ok" => FileRecord(k, remote[k], "downloaded", 1) \in file

\* ---- C10 ----------------------------------------------------------------
\* C10: Run returns an error exactly when the listing or the snapshot read
\* of Run fails; then no worker was started, nothing was fetched or buffered
\* and the file is as it was; and a run in which fetches were made returns
\* nil however many of them failed.
C10_RunErrorIffFatal ==
  /\ [](runErr = "err" =>
          /\ \A k \in Keys : fetched[k] = "none"
          /\ \A w \in Workers : pc[w] = "idle"
          /\ enqueued = {} /\ bufLen = 0
          /\ file = file0)
  /\ []((pc[Main] = "done" /\ \E k \in Keys : fetched[k] # "none")
          => runErr = "nil")
  /\ [][(runErr' = "err") <=>
          \/ runErr = "err"
          \/ (pc[Main] \in {"list", "snap"} /\ faults' = faults + 1)]_vars

\* Run has returned an error.
C10_Witness ==
  runErr = "err" /\ pc[Main] = "done" /\ faults = 1

\* ---- C11 ----------------------------------------------------------------
\* C11: after the cancellation signal a fetch in progress is not aborted: it
\* never ends with the error of the cancelled context, so what is recorded is
\* the fetch's own outcome; and no fetch is started by a worker once ctx is
\* done.
C11_CancelDrainsCurrent ==
  /\ [](\A k \in Keys : fetched[k] # "abort")
  /\ [][\A w \in Workers :
          (pc[w] # "fetch" /\ pc'[w] = "fetch") => ~cancelled]_vars

\* ---- C12 ----------------------------------------------------------------
\* C12: when an interrupt arrives during a run in which updates were
\* enqueued, the process does not exit before the workers have stopped and
\* Run has returned from its final flush, and every update enqueued before
\* the exit is in the store.
C12_GracefulExit ==
  (exited /\ interrupted /\ enqueued # {}) =>
     /\ \A w \in Workers : pc[w] \in {"idle", "exit"}
     /\ pc[Main] = "done"
     /\ enqueued \subseteq file

\* ---- C13 ----------------------------------------------------------------
\* C13: a record is never removed from the store: as long as no store
\* operation fails, every step keeps every key the file holds, and the file
\* has one row per key.
C13_NeverRemoved ==
  [][faults' = 0 =>
       /\ FileKeys(file) \subseteq FileKeys(file')
       /\ \A r1 \in file' : \A r2 \in file' : r1.key = r2.key => r1 = r2]_vars

\* ---- C14 ----------------------------------------------------------------
\* C14: after a run (no store failure, no cancellation) the row of every key
\* that was not planned is the row it had before the run, and every planned
\* key whose fetch succeeded has the row with the remote ETag and status
\* "downloaded".
C14_FrameAndEffect ==
  (runErr = "nil" /\ Undisturbed) =>
     /\ \A r \in file0 : r.key \notin PlanKeys => r \in file
     /\ \A r \in file : r.key \notin PlanKeys => r \in file0
     /\ \A k \in PlanKeys :
          fetched[k] = "ok" => FileRecord(k, remote[k], "downloaded", 1) \in file

\* ---- C20 ----------------------------------------------------------------
\* C20: as long as no flush has failed, the batch buffer never holds more
\* than batchSize records.
C20_BufferBounded ==
  faults = 0 => bufLen <= batchSize

\* ---- C15 ----------------------------------------------------------------
\* The state of the plan item of key k: Fetching while a worker is in
\* DownloadFile for it, Succeeded or Failed once DownloadFile has returned.
ItemState(k) ==
  IF fetched[k] = "ok" THEN "Succeeded"
  ELSE IF fetched[k] \in {"fail", "abort"} THEN "Failed"
  ELSE IF \E w \in Workers : pc[w] = "fetch" /\ cur[w] = k THEN "Fetching"
  ELSE "Pending"

\* C15: a plan item only moves Pending -> Fetching -> Succeeded or Failed
\* (so it is fetched at most once and Failed is final), no two workers hold
\* the same item, and an item a worker holds or has finished is not in the
\* queue, where no item is twice.
C15_ItemStateMachine ==
  /\ [](\A w1 \in Workers : \A w2 \in Workers :
          (w1 # w2 /\ cur[w1] # NoKey) => cur[w1] # cur[w2])
  /\ [](\A i \in 1..Len(queue) :
          /\ ItemState(queue[i]) = "Pending"
          /\ \A w \in Workers : cur[w] # queue[i]
          /\ \A j \in 1..Len(queue) : queue[i] = queue[j] => i = j)
  /\ [][\A k \in Keys :
          ItemState(k)' # ItemState(k) =>
            << ItemState(k), ItemState(k)' >> \in
               { << "Pending", "Fetching" >>,
                 << "Fetching", "Succeeded" >>,
                 << "Fetching", "Failed" >> }]_vars

\* One fetch has failed, the worker went on, another item succeeded and Run
\* has returned.
C15_Witness ==
  /\ runErr = "nil"
  /\ \E k1 \in Keys : \E k2 \in Keys :
       ItemState(k1) = "Failed" /\ ItemState(k2) = "Succeeded"

C17_FailedNotReplanned ==
  /\ [](\A k \in Keys :
          FileRecord(k, remote[k], "failed", 1) \in file =>
            \A later \in [Keys -> ETags \cup {Absent}] :
              (k \in GetFilesToDownload(later, RecordMap(file)))
                <=> (later[k] # Absent /\ later[k] # remote[k]))
  /\ [][\A w \in Workers :
          (pc[w] = "bu_store" /\ pc'[w] = "bu_check" /\ fetched[cur[w]] # "ok")
            => FileRecord(cur[w], remote[cur[w]], "failed", 1) \in enqueued']_vars

\* Run has returned and the store holds the failed record of a key whose
\* fetch failed.
C17_Witness ==
  /\ runErr = "nil"
  /\ \E k \in Keys :
       fetched[k] = "fail" /\ FileRecord(k, remote[k], "failed", 1) \in file

\* ---- C19 ----------------------------------------------------------------
\* C19: a worker that finds ctx done at the rate limiter returns at once:
\* the step fetches nothing, appends nothing, writes nothing and counts
\* nothing; the item it had taken from the queue stays Pending, has no
\* update enqueued and no row of this run, and the progress counters stay
\* below the total.
C19_CancelledItemDropped ==
  /\ [](\A w \in Workers :
          (pc[w] = "exit" /\ cur[w] # NoKey) =>
             /\ ItemState(cur[w]) = "Pending"
             /\ \A r \in enqueued : r.key # cur[w]
             /\ \A r \in file : r.key = cur[w] => r.syncedAt = 0
             /\ \A i \in 1..Len(queue) : queue[i] # cur[w]
             /\ progress.success + progress.failed < progress.total)
  /\ [][\A w \in Workers :
          (pc[w] = "limit" /\ cancelled /\ pc'[w] # "limit") =>
             /\ pc'[w] = "exit"
             /\ cur'[w] = cur[w]
             /\ fetched' = fetched /\ enqueued' = enqueued
             /\ bufLen' = bufLen /\ bufArr' = bufArr
             /\ file' = file /\ progress' = progress]_vars

\* Run has returned although a worker dropped the item it had taken.
C19_Witness ==
  /\ runErr = "nil"
  /\ \E w \in Workers : pc[w] = "exit" /\ cur[w] # NoKey

\* ---- C18 ----------------------------------------------------------------
\* C18: Run terminates (or the process is ended by an interrupt first): a
\* send on the queue never finds it full, every worker has exited when the
\* wait for the workers has returned, Run eventually returns, and with no
\* interrupt and no fatal error every plan item eventually is Succeeded or
\* Failed.
C18_RunTerminates ==
  /\ []((pc[Main] = "fill" /\ sent < Len(filesToDownload))
          => Len(queue) < QueueCap)
  /\ []((pc[Main] \notin {"list", "snap", "plan", "fill", "wait"} /\ filesToDownload # << >>)
          => \A w \in 1..numWorkers : pc[w] = "exit")
  /\ <>(pc[Main] = "done" \/ exited)
  /\ <>(\/ interrupted
        \/ runErr = "err"
        \/ /\ Planned
           /\ \A k \in PlanKeys : ItemState(k) \in {"Succeeded", "Failed"})

\* Run has returned after every item of a plan of NumKeys items was fetched.
C18_Witness ==
  /\ runErr = "nil" /\ ~interrupted
  /\ Len(filesToDownload) = NumKeys
  /\ \A k \in PlanKeys : ItemState(k) \in {"Succeeded", "Failed"}

\* ---- C21 ----------------------------------------------------------------
\* The plan items whose fetch returned with one of the outcomes outs and whose
\* worker has gone on to its next iteration.
Accounted(outs) ==
  {k \in Keys : fetched[k] \in outs /\ \A w \in Workers : cur[w] # k}

\* C21: success + failed <= total, total being the plan's length; success
\* counts the fetches that returned without error and failed those that
\* returned an error, each counted once when its worker finishes the
\* iteration, whatever BatchUpdate returned; when Run has returned nil with no
\* interrupt, success + failed = total.
C21_ProgressCounters ==
  /\ [](progress.success + progress.failed <= progress.total)
  /\ [](Planned => progress.total = Len(filesToDownload))
  /\ [](progress.success = Cardinality(Accounted({"ok"})))
  /\ [](progress.failed = Cardinality(Accounted({"fail", "abort"})))
  /\ []((runErr = "nil" /\ ~interrupted)
          => progress.success + progress.failed = progress.total)
  /\ [][\A w \in Workers :
          (pc[w] = "inc" /\ pc'[w] # "inc") =>
             IF fetched[cur[w]] = "ok"
             THEN /\ progress'.success = progress.success + 1
                  /\ progress'.failed = progress.failed
             ELSE /\ progress'.failed = progress.failed + 1
                  /\ progress'.success = progress.success]_vars

\* Run has returned nil, uninterrupted; every item of a plan of NumKeys items
\* is counted as a success although a worker's BatchUpdate returned an error.
C21_Witness ==
  /\ runErr = "nil" /\ ~interrupted
  /\ progress.success = NumKeys /\ progress.failed = 0
  /\ \E w \in Workers : flushErr[w] = "err"

====
